---- MODULE Spec2Model ----
(***************************************************************************)
(* Model of src/src/rCholWishart.c: the two entry points rCholWishart and  *)
(* rInvCholWishart, the Bartlett factor sampler std_rWishart_factor they    *)
(* share, and the primitives they call (dpotrf, dtrmm, dtrtri, the R RNG    *)
(* bracket GetRNGstate/PutRNGstate, rchisq, norm_rand, Calloc/Free,         *)
(* PROTECT/UNPROTECT, error).                                               *)
(*                                                                          *)
(* Doubles are modelled by exact rationals <<num, den>>; the inputs are     *)
(* chosen so that every square root the code takes is exact.  Matrices are  *)
(* flat column-major arrays indexed from 0, as in the C code.               *)
(***************************************************************************)
EXTENDS Integers, Sequences, FiniteSets, TLC

\* ------------------------------------------------------------------ bounds
MaxP == 2
MaxN == 2
MaxNu == 3
MaxSeed == 2

\* ------------------------------------------------------- exact arithmetic
Abs(x) == IF x < 0 THEN -x ELSE x

RECURSIVE GCD(_, _)
GCD(a, b) == IF b = 0 THEN a ELSE GCD(b, a % b)

\* the double with value num/den, in lowest terms, den > 0
Q(num, den) ==
  LET s == IF den < 0 THEN -1 ELSE 1
      g == GCD(Abs(num), Abs(den))
  IN  <<(s * num) \div g, (s * den) \div g>>

Zero == <<0, 1>>
One == <<1, 1>>
RAdd(x, y) == Q(x[1] * y[2] + y[1] * x[2], x[2] * y[2])
RSub(x, y) == Q(x[1] * y[2] - y[1] * x[2], x[2] * y[2])
RMul(x, y) == Q(x[1] * y[1], x[2] * y[2])
RDiv(x, y) == Q(x[1] * y[2], x[2] * y[1])
RNeg(x) == <<-x[1], x[2]>>
RLeqZero(x) == x[1] <= 0

\* sqrt() on the values the model feeds it (perfect squares)
ISqrt(k) == CHOOSE r \in 0..k : r * r = k
RSqrt(x) == <<ISqrt(x[1]), ISqrt(x[2])>>

\* sum of f[lo] .. f[hi]
RECURSIVE RSum(_, _, _)
RSum(f, lo, hi) == IF lo > hi THEN Zero ELSE RAdd(f[lo], RSum(f, lo + 1, hi))

\* a buffer of len doubles, all 0.0 (Calloc, memset 0)
ZeroBuf(len) == [x \in 0..(len - 1) |-> Zero]
NoBuf == [x \in {} |-> Zero]

\* ------------------------------------------------------ LAPACK / BLAS
\* dpotrf("U", n, a, lda = n): Cholesky factor in the upper triangle, in place.
\* Column jj: the pivot ajj = a(jj,jj) - sum_k a(k,jj)^2; a non-positive pivot
\* stores ajj and returns info = jj + 1; otherwise row jj is scaled.  The
\* strictly lower triangle is neither read nor written.
RECURSIVE Dpotf2(_, _, _)
Dpotf2(a, nn, jj) ==
  IF jj < 0 THEN [a |-> a, info |-> 0]
  ELSE LET prev == Dpotf2(a, nn, jj - 1)
           b == prev.a
           ajj == RSub(b[jj + jj * nn],
                       RSum([k \in 0..(jj - 1) |-> RMul(b[k + jj * nn], b[k + jj * nn])],
                            0, jj - 1))
       IN  IF prev.info # 0 THEN prev
           ELSE IF RLeqZero(ajj)
             THEN [a |-> [b EXCEPT ![jj + jj * nn] = ajj], info |-> jj + 1]
             ELSE LET d == RSqrt(ajj)
                  IN  [a |-> [idx \in DOMAIN b |->
                               LET r == idx % nn
                                   c == idx \div nn
                               IN  IF r = jj /\ c = jj THEN d
                                   ELSE IF r = jj /\ c > jj
                                     THEN RDiv(RSub(b[idx],
                                                    RSum([k \in 0..(jj - 1) |->
                                                           RMul(b[k + jj * nn], b[k + c * nn])],
                                                         0, jj - 1)),
                                               d)
                                     ELSE b[idx]],
                       info |-> 0]

Dpotrf(a, nn) == Dpotf2(a, nn, nn - 1)

\* dtrmm("R", "U", "N", "N", m, n, alpha = 1, A, lda, B, ldb): B := B * A with A
\* upper triangular, non-unit; only the upper triangle of A is referenced.
Dtrmm(m, nn, a, b) ==
  [idx \in DOMAIN b |->
    LET r == idx % m
        c == idx \div m
    IN  RSum([k \in 0..c |-> RMul(b[r + k * m], a[k + c * nn])], 0, c)]

\* dtrtri("U", diag, n, a, lda = n): inverse of the upper triangle, in place.
\* With diag = "N" a zero diagonal entry returns info = its 1-based index and
\* leaves a untouched.  Then dtrti2, column by column: a(jj,jj) := 1/a(jj,jj),
\* the column above it := -a(jj,jj) * (inverted leading block) * column.
RECURSIVE Dtrti2(_, _, _, _)
Dtrti2(a, nn, unit, jj) ==
  IF jj < 0 THEN a
  ELSE LET b == Dtrti2(a, nn, unit, jj - 1)
           djj == IF unit THEN One ELSE RDiv(One, b[jj + jj * nn])
           x(i) == RSum([k \in i..(jj - 1) |->
                          RMul(IF k = i /\ unit THEN One ELSE b[i + k * nn],
                               b[k + jj * nn])],
                        i, jj - 1)
       IN  [idx \in DOMAIN b |->
             LET r == idx % nn
                 c == idx \div nn
             IN  IF c = jj /\ r = jj /\ ~unit THEN djj
                 ELSE IF c = jj /\ r < jj THEN RMul(RNeg(djj), x(r))
                 ELSE b[idx]]

SingularAt(a, nn) == {k \in 1..nn : a[(k - 1) + (k - 1) * nn] = Zero}

Dtrtri(diag, nn, a) ==
  IF diag = "N" /\ SingularAt(a, nn) # {}
    THEN [a |-> a, info |-> CHOOSE k \in SingularAt(a, nn) :
                              \A k2 \in SingularAt(a, nn) : k <= k2]
    ELSE [a |-> Dtrti2(a, nn, diag = "U", nn - 1), info |-> 0]

\* ------------------------------------------------------ memory primitives
\* Memcpy with its first two arguments exchanged
MemcpySwapped(h, dst, src, len) ==
  [h EXCEPT ![src] = [x \in DOMAIN h[src] |-> IF x < len THEN h[dst][x] ELSE h[src][x]]]

\* Memcpy(dst, src, len) and memset(dst, 0, len * sizeof(double)) on the heap h,
\* a function from region names to buffers
Memcpy(h, dst, src, len) ==
  [h EXCEPT ![dst] = [x \in DOMAIN h[dst] |-> IF x < len THEN h[src][x] ELSE h[dst][x]]]

Memset0(h, dst, len) ==
  [h EXCEPT ![dst] = [x \in DOMAIN h[dst] |-> IF x < len THEN Zero ELSE h[dst][x]]]

\* the content of freshly allocated, not yet written doubles (alloc3DArray does
\* not clear its data)
Garbage == <<0, 0>>
GarbageBuf(len) == [x \in 0..(len - 1) |-> Garbage]

\* ------------------------------------------------------ random variates
\* The generator state advances once per variate; the variate is a function
\* of the new state (and, for rchisq, of its shape).  rchisq returns a double
\* >= 0 whose square root is exact here; 0.0 is its boundary value.
NextState(s) == (3 * s + 1) % 7
ChiSq(s, df) == LET r == (s + df) % 3 IN <<r * r, 1>>
NormRand(s) == <<(s % 4) - 1, 1>>

\* ------------------------------------------------------ inputs
\* The scale matrices tried, p x p, column-major.  base = U^T U for the upper
\* triangular U with a on the diagonal and c above it (positive-definite).
\*   "pd"       base
\*   "asym"     base with every entry below the diagonal replaced by 5
\*   "zerolast" base with the last diagonal entry replaced by 0
\*   "negfirst" base with the first diagonal entry replaced by -1
ScaleKinds == {"pd", "asym", "zerolast", "negfirst"}

ScaleData(kind, p, a, c) ==
  LET U(m, i) == IF m = i THEN a ELSE IF m < i THEN c ELSE 0
      Min(x, y) == IF x < y THEN x ELSE y
      base(i, k) == RSum([m \in 0..Min(i, k) |-> <<U(m, i) * U(m, k), 1>>], 0, Min(i, k))
  IN  [idx \in 0..(p * p - 1) |->
        LET i == idx % p
            k == idx \div p
        IN  IF kind = "asym" /\ i > k THEN <<5, 1>>
            ELSE IF kind = "zerolast" /\ i = p - 1 /\ k = p - 1 THEN Zero
            ELSE IF kind = "negfirst" /\ i = 0 /\ k = 0 THEN <<-1, 1>>
            ELSE base(i, k)]

\* scal as the C code sees it: isMatrix(scal), isReal(scal), its dim attribute
\* and its data.  Without a dim attribute dims is never read (|| short-circuits).
ScaleArgs ==
  {[isMatrix |-> TRUE, isReal |-> TRUE, dims |-> <<p, p>>, data |-> ScaleData(kind, p, a, c)] :
     kind \in ScaleKinds, p \in 1..MaxP, a \in 1..2, c \in 0..1}
  \cup {[isMatrix |-> TRUE, isReal |-> TRUE, dims |-> <<p, q>>,
         data |-> [x \in 0..(p * q - 1) |-> One]] :
          p \in 1..MaxP, q \in 1..MaxP}
  \cup {[isMatrix |-> TRUE, isReal |-> FALSE, dims |-> <<p, p>>,
         data |-> [x \in 0..(p * p - 1) |-> One]] : p \in 1..MaxP}
  \cup {[isMatrix |-> FALSE, isReal |-> TRUE, dims |-> <<0, 0>>,
         data |-> [x \in 0..0 |-> One]]}

\* ------------------------------------------------------ state
VARIABLES
  fn,          \* the entry point running: "rCholWishart" or "rInvCholWishart"
  ns, nuP,     \* its arguments ns and nuP (scal is below)
  scal,        \* [isMatrix, isReal, dims] of the argument scal
  heap,        \* the doubles of scal, scCp, tmp and ans
  mem,         \* Calloc state of tmp and scCp: "none", "live", "freed", "twice"
  ansAlloc,    \* alloc3DArray has run
  protected,   \* depth of the PROTECT stack
  n, psqr, info, j,   \* locals of the entry point
  fj, fi,      \* loop indices j and i of std_rWishart_factor
  pc, err,     \* position in the code; the error raised, "" if none
  RandomSeed,  \* .Random.seed, the stream state other consumers see
  rngState,    \* the generator's working state between GetRNGstate and PutRNGstate
  rngHeld, gets, puts,   \* the bracket: held, count of GetRNGstate and PutRNGstate
  drawLog,     \* the variates drawn by this call: <<kind, shape, held>>
  potrfLog,    \* info of each dpotrf call of this call
  infoLog,     \* info of each dtrtri call of this call
  writeLog,    \* the output slots written, in order
  callNo,      \* 1: rCholWishart; 2: rInvCholWishart on the same inputs and stream
  seed0,       \* the stream state both calls start from
  prev         \* what call 1 left behind

inputs == <<ns, nuP, scal, seed0>>
vars == <<fn, ns, nuP, scal, heap, mem, ansAlloc, protected, n, psqr, info, j, fj, fi,
          pc, err, RandomSeed, rngState, rngHeld, gets, puts, drawLog, potrfLog,
          infoLog, writeLog, callNo, seed0, prev>>

P0 == scal.dims[1]
P1 == scal.dims[2]
EmptyHeap(data) == [scal |-> data, scCp |-> NoBuf, tmp |-> NoBuf, ans |-> NoBuf]
NoPrev == [pc |-> "", err |-> "", n |-> 0, ans |-> NoBuf, scCp |-> NoBuf,
           drawLog |-> <<>>, writeLog |-> <<>>, RandomSeed |-> 0]

Init ==
  /\ fn = "rCholWishart"
  /\ callNo = 1
  /\ ns \in (-1)..MaxN
  /\ nuP \in 0..MaxNu
  /\ seed0 \in 0..MaxSeed
  /\ \E s \in ScaleArgs :
       /\ scal = [isMatrix |-> s.isMatrix, isReal |-> s.isReal, dims |-> s.dims]
       /\ heap = EmptyHeap(s.data)
  /\ mem = [tmp |-> "none", scCp |-> "none"]
  /\ ansAlloc = FALSE
  /\ protected = 0
  /\ n = ns
  /\ psqr = 0
  /\ info = 0
  /\ j = 0
  /\ fj = 0
  /\ fi = 0
  /\ pc = "entry"
  /\ err = ""
  /\ RandomSeed = seed0
  /\ rngState = 0
  /\ rngHeld = FALSE
  /\ gets = 0
  /\ puts = 0
  /\ drawLog = <<>>
  /\ potrfLog = <<>>
  /\ infoLog = <<>>
  /\ writeLog = <<>>
  /\ prev = NoPrev

\* ------------------------------------------------------ conditions of the code
\* !isMatrix(scal) || !isReal(scal) || dims[0] != dims[1]
ShapeInvalid(s) == ~s.isMatrix \/ ~s.isReal \/ s.dims[1] # s.dims[2]

\* n < 0 where the code has n <= 0
CoerceNegative(x) == IF x < 0 THEN 1 ELSE x

\* if (n <= 0) n = 1;
CoerceN(x) == IF x <= 0 THEN 1 ELSE x

\* if (info) error(...) after dpotrf
PotrfFailed(i) == i # 0

\* nu < (double) p || p <= 0
DofInvalid(nu, p) == nu < p \/ p <= 0

\* i <= j where the code has i < j
RowCondInclusive(i, jc) == i <= jc

\* for (int i = 0; i < j; i++) in std_rWishart_factor
RowCond(i, jc) == i < jc

\* the argument upper that both entry points pass to std_rWishart_factor
Upper == 1

\* upper ? lind : uind
PickLower(upper, uind, lind) == IF upper # 0 THEN lind ELSE uind

\* upper ? uind : lind
Pick(upper, uind, lind) == IF upper # 0 THEN uind ELSE lind

\* "U" (unit diagonal) where the code passes "N"
TrtriDiagUnit == "U"

\* the diag argument the code passes to dtrtri
TrtriDiag == "N"

\* error(): control leaves the entry point, R unwinds the PROTECT stack; nothing
\* else of the call's state is touched
Raise(kind) ==
  /\ pc' = "error"
  /\ err' = kind
  /\ protected' = 0

\* one variate from the stream
Draw(kind, df) ==
  /\ rngState' = NextState(rngState)
  /\ drawLog' = Append(drawLog, <<kind, df, rngHeld>>)

\* ------------------------------------------------------ the entry points
\* lines 85-88 / 149-151
Validate ==
  /\ pc = "entry"
  /\ IF ShapeInvalid(scal)
       THEN Raise("InvalidShape") /\ UNCHANGED n
       ELSE /\ n' = CoerceN(n)
            /\ pc' = "alloc"
            /\ UNCHANGED <<err, protected>>
  /\ UNCHANGED <<fn, inputs, heap, mem, ansAlloc, psqr, info, j, fj, fi, RandomSeed,
                 rngState, rngHeld, gets, puts, drawLog, potrfLog, infoLog, writeLog,
                 callNo, prev>>

\* lines 90-91 / 153-154
AllocAns ==
  /\ pc = "alloc"
  /\ heap' = [heap EXCEPT !.ans = GarbageBuf(P0 * P0 * n)]
  /\ ansAlloc' = TRUE
  /\ protected' = protected + 1
  /\ psqr' = P0 * P0
  /\ pc' = "calloc"
  /\ UNCHANGED <<fn, inputs, mem, n, info, j, fj, fi, err, RandomSeed, rngState, rngHeld,
                 gets, puts, drawLog, potrfLog, infoLog, writeLog, callNo, prev>>

\* lines 92-93 / 155-156
CallocBufs ==
  /\ pc = "calloc"
  /\ heap' = [heap EXCEPT !.tmp = ZeroBuf(psqr), !.scCp = ZeroBuf(psqr)]
  /\ mem' = [tmp |-> "live", scCp |-> "live"]
  /\ pc' = "memcpy"
  /\ UNCHANGED <<fn, inputs, ansAlloc, protected, n, psqr, info, j, fj, fi, err,
                 RandomSeed, rngState, rngHeld, gets, puts, drawLog, potrfLog, infoLog,
                 writeLog, callNo, prev>>

\* lines 95-96 / 158-159
CopyScale ==
  /\ pc = "memcpy"
  /\ heap' = Memset0(Memcpy(heap, "scCp", "scal", psqr), "tmp", psqr)
  /\ pc' = "dpotrf"
  /\ UNCHANGED <<fn, inputs, mem, ansAlloc, protected, n, psqr, info, j, fj, fi, err,
                 RandomSeed, rngState, rngHeld, gets, puts, drawLog, potrfLog, infoLog,
                 writeLog, callNo, prev>>

\* line 97 / 160
Factor ==
  /\ pc = "dpotrf"
  /\ LET r == Dpotrf(heap.scCp, P0)
     IN  /\ heap' = [heap EXCEPT !.scCp = r.a]
         /\ info' = r.info
         /\ potrfLog' = Append(potrfLog, r.info)
  /\ pc' = "info"
  /\ UNCHANGED <<fn, inputs, mem, ansAlloc, protected, n, psqr, j, fj, fi, err,
                 RandomSeed, rngState, rngHeld, gets, puts, drawLog, infoLog, writeLog,
                 callNo, prev>>

\* lines 98-100 / 161-163
CheckInfo ==
  /\ pc = "info"
  /\ IF PotrfFailed(info)
       THEN Raise("NotPositiveDefinite")
       ELSE pc' = "getrng" /\ UNCHANGED <<err, protected>>
  /\ UNCHANGED <<fn, inputs, heap, mem, ansAlloc, n, psqr, info, j, fj, fi, RandomSeed,
                 rngState, rngHeld, gets, puts, drawLog, potrfLog, infoLog, writeLog,
                 callNo, prev>>

\* line 101 / 164, and the loop's int j = 0
GetRNG ==
  /\ pc = "getrng"
  /\ rngState' = RandomSeed
  /\ rngHeld' = TRUE
  /\ gets' = gets + 1
  /\ j' = 0
  /\ pc' = "loop"
  /\ UNCHANGED <<fn, inputs, heap, mem, ansAlloc, protected, n, psqr, info, fj, fi, err,
                 RandomSeed, puts, drawLog, potrfLog, infoLog, writeLog, callNo, prev>>

\* line 102 / 165: j < n
LoopTest ==
  /\ pc = "loop"
  /\ pc' = IF j < n THEN "factor" ELSE "putrng"
  /\ UNCHANGED <<fn, inputs, heap, mem, ansAlloc, protected, n, psqr, info, j, fj, fi,
                 err, RandomSeed, rngState, rngHeld, gets, puts, drawLog, potrfLog,
                 infoLog, writeLog, callNo, prev>>

\* std_rWishart_factor(nu, dims[0], 1, tmp), lines 50-54
FactorEnter ==
  /\ pc = "factor"
  /\ IF DofInvalid(nuP, P0)
       THEN Raise("InvalidDegreesOfFreedom") /\ UNCHANGED <<heap, fj>>
       ELSE /\ heap' = Memset0(heap, "tmp", P0 * P0)
            /\ fj' = 0
            /\ pc' = "column"
            /\ UNCHANGED <<err, protected>>
  /\ UNCHANGED <<fn, inputs, mem, ansAlloc, n, psqr, info, j, fi, RandomSeed, rngState,
                 rngHeld, gets, puts, drawLog, potrfLog, infoLog, writeLog, callNo, prev>>

\* lines 55-56: the column loop and its diagonal entry
Column ==
  /\ pc = "column"
  /\ IF fj < P0
       THEN /\ Draw("chisq", nuP - fj)
            /\ heap' = [heap EXCEPT !.tmp[fj * (P0 + 1)] =
                          RSqrt(ChiSq(NextState(rngState), nuP - fj))]
            /\ fi' = 0
            /\ pc' = "row"
       ELSE /\ pc' = "dtrmm"
            /\ UNCHANGED <<heap, fi, rngState, drawLog>>
  /\ UNCHANGED <<fn, inputs, mem, ansAlloc, protected, n, psqr, info, j, fj, err,
                 RandomSeed, rngHeld, gets, puts, potrfLog, infoLog, writeLog, callNo, prev>>

\* lines 57-62: the row loop
Row ==
  /\ pc = "row"
  /\ IF RowCond(fi, fj)
       THEN LET uind == fi + fj * P0
                lind == fj + fi * P0
            IN  /\ Draw("norm", 0)
                /\ heap' = [heap EXCEPT
                              !.tmp = [[@ EXCEPT ![Pick(Upper, uind, lind)] =
                                                    NormRand(NextState(rngState))]
                                        EXCEPT ![Pick(Upper, lind, uind)] = Zero]]
                /\ fi' = fi + 1
                /\ UNCHANGED <<fj, pc>>
       ELSE /\ fj' = fj + 1
            /\ pc' = "column"
            /\ UNCHANGED <<heap, fi, rngState, drawLog>>
  /\ UNCHANGED <<fn, inputs, mem, ansAlloc, protected, n, psqr, info, j, err, RandomSeed,
                 rngHeld, gets, puts, potrfLog, infoLog, writeLog, callNo, prev>>

\* lines 105-106 / 168-169
Combine ==
  /\ pc = "dtrmm"
  /\ heap' = [heap EXCEPT !.tmp = Dtrmm(P0, P0, heap.scCp, heap.tmp)]
  /\ pc' = IF fn = "rInvCholWishart" THEN "dtrtri" ELSE "copyout"
  /\ UNCHANGED <<fn, inputs, mem, ansAlloc, protected, n, psqr, info, j, fj, fi, err,
                 RandomSeed, rngState, rngHeld, gets, puts, drawLog, potrfLog, infoLog,
                 writeLog, callNo, prev>>

\* lines 112-113 (rInvCholWishart only); info is not looked at afterwards
Invert ==
  /\ pc = "dtrtri"
  /\ LET r == Dtrtri(TrtriDiag, P1, heap.tmp)
     IN  /\ heap' = [heap EXCEPT !.tmp = r.a]
         /\ info' = r.info
         /\ infoLog' = Append(infoLog, r.info)
  /\ pc' = "copyout"
  /\ UNCHANGED <<fn, inputs, mem, ansAlloc, protected, n, psqr, j, fj, fi, err,
                 RandomSeed, rngState, rngHeld, gets, puts, drawLog, potrfLog, writeLog,
                 callNo, prev>>

\* lines 116-118 / 174-176 and the loop's j++
CopyOut ==
  /\ pc = "copyout"
  /\ heap' = [heap EXCEPT !.ans =
                [x \in DOMAIN @ |->
                  IF x \in (j * psqr)..(j * psqr + P0 * P0 - 1)
                    THEN heap.tmp[x - j * psqr]
                    ELSE @[x]]]
  /\ writeLog' = Append(writeLog, j)
  /\ j' = j + 1
  /\ pc' = "loop"
  /\ UNCHANGED <<fn, inputs, mem, ansAlloc, protected, n, psqr, info, fj, fi, err,
                 RandomSeed, rngState, rngHeld, gets, puts, drawLog, potrfLog, infoLog,
                 callNo, prev>>

\* line 123 / 181
PutRNG ==
  /\ pc = "putrng"
  /\ RandomSeed' = rngState
  /\ rngHeld' = FALSE
  /\ puts' = puts + 1
  /\ pc' = "free"
  /\ UNCHANGED <<fn, inputs, heap, mem, ansAlloc, protected, n, psqr, info, j, fj, fi,
                 err, rngState, gets, drawLog, potrfLog, infoLog, writeLog, callNo, prev>>

\* Free(p) on the Calloc state of p
Freed(st) == IF st = "live" THEN "freed" ELSE "twice"

\* line 124 / 182
FreeBufs ==
  /\ pc = "free"
  /\ mem' = [tmp |-> Freed(mem.tmp), scCp |-> Freed(mem.scCp)]
  /\ pc' = "unprotect"
  /\ UNCHANGED <<fn, inputs, heap, ansAlloc, protected, n, psqr, info, j, fj, fi, err,
                 RandomSeed, rngState, rngHeld, gets, puts, drawLog, potrfLog, infoLog,
                 writeLog, callNo, prev>>

\* lines 125-126 / 183-184
Return ==
  /\ pc = "unprotect"
  /\ protected' = protected - 1
  /\ pc' = "returned"
  /\ UNCHANGED <<fn, inputs, heap, mem, ansAlloc, n, psqr, info, j, fj, fi, err,
                 RandomSeed, rngState, rngHeld, gets, puts, drawLog, potrfLog, infoLog,
                 writeLog, callNo, prev>>

Terminal == pc \in {"returned", "error"}

\* The caller: once rCholWishart has ended, rInvCholWishart is called with the
\* same arguments and the stream set back to the state rCholWishart started from.
NextCall ==
  /\ Terminal
  /\ callNo = 1
  /\ callNo' = 2
  /\ fn' = "rInvCholWishart"
  /\ prev' = [pc |-> pc, err |-> err, n |-> n, ans |-> heap.ans, scCp |-> heap.scCp,
              drawLog |-> drawLog, writeLog |-> writeLog, RandomSeed |-> RandomSeed]
  /\ heap' = EmptyHeap(heap.scal)
  /\ mem' = [tmp |-> "none", scCp |-> "none"]
  /\ ansAlloc' = FALSE
  /\ protected' = 0
  /\ n' = ns
  /\ psqr' = 0
  /\ info' = 0
  /\ j' = 0
  /\ fj' = 0
  /\ fi' = 0
  /\ pc' = "entry"
  /\ err' = ""
  /\ RandomSeed' = seed0
  /\ rngState' = 0
  /\ rngHeld' = FALSE
  /\ gets' = 0
  /\ puts' = 0
  /\ drawLog' = <<>>
  /\ potrfLog' = <<>>
  /\ infoLog' = <<>>
  /\ writeLog' = <<>>
  /\ UNCHANGED inputs

Next ==
  \/ Validate
  \/ AllocAns
  \/ CallocBufs
  \/ CopyScale
  \/ Factor
  \/ CheckInfo
  \/ GetRNG
  \/ LoopTest
  \/ FactorEnter
  \/ Column
  \/ Row
  \/ Combine
  \/ Invert
  \/ CopyOut
  \/ PutRNG
  \/ FreeBufs
  \/ Return
  \/ NextCall

Spec == Init /\ [][Next]_vars

\* ------------------------------------------------------ vocabulary of the claims
Max(x, y) == IF x > y THEN x ELSE y

\* the p x p matrix in output slot jj of buf
Slot(buf, jj, p) == [x \in 0..(p * p - 1) |-> buf[jj * p * p + x]]

\* an upper triangular matrix: every entry (i, k) with i > k is exactly 0
IsUpper(m, p) == \A i, k \in 0..(p - 1) : i > k => m[i + k * p] = Zero

\* the dense product a * b of two p x p matrices
MatMul(a, b, p) ==
  [x \in 0..(p * p - 1) |->
    RSum([m \in 0..(p - 1) |-> RMul(a[(x % p) + m * p], b[m + (x \div p) * p])], 0, p - 1)]

Identity(p) == [x \in 0..(p * p - 1) |-> IF x % p = x \div p THEN One ELSE Zero]

\* a triangular matrix has an inverse iff no diagonal entry is 0
Invertible(m, p) == \A i \in 0..(p - 1) : m[i + i * p] # Zero

\* the variates one column, one sample and a whole session draw, as section 4.2
\* of the specification orders them
ColumnDraws(nu, jc) == <<<<"chisq", nu - jc>>>> \o [i \in 1..jc |-> <<"norm", 0>>]

RECURSIVE SampleDraws(_, _)
SampleDraws(nu, p) ==
  IF p = 0 THEN <<>> ELSE SampleDraws(nu, p - 1) \o ColumnDraws(nu, p - 1)

RECURSIVE SessionDraws(_, _, _)
SessionDraws(count, nu, p) ==
  IF count = 0 THEN <<>> ELSE SessionDraws(count - 1, nu, p) \o SampleDraws(nu, p)

Kinds(log) == [k \in 1..Len(log) |-> <<log[k][1], log[k][2]>>]
IsPrefix(s, t) == Len(s) <= Len(t) /\ \A k \in 1..Len(s) : s[k] = t[k]
UpTo(count) == [k \in 1..count |-> k - 1]

\* ------------------------------------------------------ the claims

\* C1: every validation failure (InvalidShape, InvalidDegreesOfFreedom) is
\* raised with the output collection not allocated, the RNG stream not
\* acquired and no variate drawn.
C1Claim ==
  err \in {"InvalidShape", "InvalidDegreesOfFreedom"} =>
    ~ansAlloc /\ gets = 0 /\ drawLog = <<>>

\* C2: a call with degreesOfFreedom < dimension ends in the error
\* InvalidDegreesOfFreedom, whatever the scale matrix is.
C2Claim ==
  (Terminal /\ scal.isMatrix /\ nuP < P0) =>
    (pc = "error" /\ err = "InvalidDegreesOfFreedom")

\* C3: the RNG stream is acquired at most once, every variate is drawn while it
\* is held, and a call that acquired it has released it exactly once when it
\* ends, by return or by error.
C3Claim ==
  /\ gets <= 1
  /\ puts <= gets
  /\ \A k \in 1..Len(drawLog) : drawLog[k][3]
  /\ (Terminal /\ gets > 0) => (puts = 1 /\ ~rngHeld)

\* C4: when dtrtri signals failure in iteration k of rInvCholWishart, slot k is
\* not written, no later iteration runs, the call does not return normally and
\* it ends in SingularFactor with the RNG stream released.
C4Claim ==
  \A k \in 1..Len(infoLog) :
    infoLog[k] # 0 =>
      /\ \A w \in 1..Len(writeLog) : writeLog[w] # k - 1
      /\ Len(infoLog) = k
      /\ pc # "returned"
      /\ Terminal => (err = "SingularFactor" /\ ~rngHeld)

\* C5: a session that passes shape validation calls dpotrf exactly once, before
\* the loop, on a copy of the scale matrix (on success the upper triangle U of
\* scCp satisfies U^T U = scale); a failure of dpotrf ends the call in
\* NotPositiveDefinite with the RNG stream not acquired, no variate drawn and no
\* iteration run; and the caller's scale matrix is never written.
C5Inv ==
  /\ Len(potrfLog) <= 1
  /\ (gets > 0 \/ drawLog # <<>> \/ writeLog # <<>>) => potrfLog = <<0>>
  /\ (Terminal /\ ~ShapeInvalid(scal)) => Len(potrfLog) = 1
  /\ (potrfLog # <<>> /\ potrfLog[1] # 0 /\ pc # "info") =>
       /\ pc = "error" /\ err = "NotPositiveDefinite"
       /\ gets = 0 /\ drawLog = <<>> /\ writeLog = <<>> /\ j = 0
  /\ potrfLog = <<0>> =>
       \A i, k \in 0..(P0 - 1) :
         i <= k =>
           heap.scal[i + k * P0] =
             RSum([m \in 0..i |-> RMul(heap.scCp[m + i * P0], heap.scCp[m + k * P0])], 0, i)

C5Thm == [](C5Inv) /\ [][heap'.scal = heap.scal]_vars

C5Witness ==
  /\ pc = "error" /\ err = "NotPositiveDefinite" /\ P0 = 2
  /\ potrfLog = <<2>> /\ heap.scCp # heap.scal

C7Thm ==
  \A w \in 1..Len(writeLog) : IsUpper(Slot(heap.ans, writeLog[w], P0), P0)

C7Witness ==
  /\ fn = "rInvCholWishart" /\ P0 >= 2 /\ Len(writeLog) >= 2
  /\ \E i, k \in 0..(P0 - 1) : i < k /\ Slot(heap.ans, 1, P0)[i + k * P0] # Zero
  /\ \E x \in DOMAIN heap.scCp : (x % P0) > (x \div P0) /\ heap.scCp[x] # Zero

\* C8: a completed call returns exactly max(1, sampleCount) matrices of p x p,
\* its loop ran max(1, sampleCount) iterations, iteration j writing slot j, and
\* a sampleCount of 0 or below does not make an otherwise valid call fail.
C8Thm ==
  /\ pc = "returned" =>
       /\ DOMAIN heap.ans = 0..(Max(1, ns) * P0 * P0 - 1)
       /\ writeLog = UpTo(Max(1, ns))
       /\ j = Max(1, ns)
       /\ \A x \in DOMAIN heap.ans : heap.ans[x] # Garbage
  /\ (Terminal /\ ~ShapeInvalid(scal) /\ potrfLog = <<0>> /\ nuP >= P0) => pc = "returned"

C8Witness == pc = "returned" /\ ns <= 0 /\ Len(writeLog) = 1 /\ P0 = 2

C10Claim ==
  /\ mem.tmp # "twice" /\ mem.scCp # "twice"
  /\ Terminal => (mem.tmp \in {"none", "freed"} /\ mem.scCp \in {"none", "freed"})

====
